---- MODULE Spec2Model ----
(***************************************************************************)
(* Model of the PE resource archive decoder                                *)
(* (src/src/dec/microsoft/exe_archive_decoder.cc).                         *)
(*                                                                         *)
(* The input file is a byte image; every header structure is decoded from  *)
(* its bytes in the order and with the field widths of its constructor.    *)
(* Strings (entry names, paths) are sequences of UTF-8 byte values.        *)
(* All 32-bit header values of the images examined are below 2^30, so the  *)
(* u32 sums of rva_to_offset do not wrap; the two flag bits of a resource  *)
(* directory entry are decoded from the top byte of their word.            *)
(***************************************************************************)
EXTENDS Integers, Sequences, FiniteSets, TLC

VARIABLES
    file,       \* the input file: [size, data], data maps offsets to bytes (absent = 0)
    pos,        \* cursor of input_file.stream
    pc,         \* position inside read_meta_impl: "idle", "crawl", "done"
    detected,   \* outcome of the last is_recognized_impl call
    result,     \* outcome of the last read_meta_impl call
    hdr,        \* locals of read_meta_impl: decoded headers, RvaHelper, base_offset
    stack,      \* active process_dir invocations, innermost last
    meta,       \* ArchiveMeta::entries under construction / returned
    log,        \* diagnostics the current read_meta_impl call sent to logger.err
    src,        \* history: for each element of meta, the entry positions from the root to its leaf
    extracted,  \* outcome of the last read_file_impl call
    runs,       \* number of read_meta_impl calls started
    first       \* history: outcome of the first completed read_meta_impl call

vars == <<file, pos, pc, detected, result, hdr, stack, meta, log, src,
          extracted, runs, first>>

\* ------------------------------------------------------------------------
\* Bounds of the exploration
\* ------------------------------------------------------------------------
MaxRuns == 2
MaxDepth == 4

\* ------------------------------------------------------------------------
\* io::IStream over the file image
\* ------------------------------------------------------------------------
ByteAt(o) == IF o \in DOMAIN file.data THEN file.data[o] ELSE 0

Bytes(o, n) == [k \in 1..n |-> ByteAt(o + k - 1)]

LE16(o) == ByteAt(o) + 256 * ByteAt(o + 1)

LE24(o) == LE16(o) + 65536 * ByteAt(o + 2)

LE32(o) == LE24(o) + 16777216 * ByteAt(o + 3)

\* seek(offset) throws when the offset lies past the end of the stream
CanSeek(o) == o <= file.size

\* read(n), read_le<T>() and skip(n) throw when fewer than n bytes are left
CanRead(p, n) == p + n <= file.size

\* peek(offset, func) runs func with the cursor at offset and puts the cursor
\* back where it was at the call, whether func returns or throws
peek_restore(saved) == saved

\* A constructor reads its fields one after the other; the first field that
\* does not fit throws and leaves the cursor where that read began.
RECURSIVE ReadFields(_, _)
ReadFields(p, widths) ==
    IF widths = <<>> THEN [ok |-> TRUE, pos |-> p]
    ELSE IF ~CanRead(p, Head(widths)) THEN [ok |-> FALSE, pos |-> p]
    ELSE ReadFields(p + Head(widths), Tail(widths))

\* ------------------------------------------------------------------------
\* Header model: field widths in constructor order
\* ------------------------------------------------------------------------
DosHeaderFields ==
    <<2, 2, 2, 2, 2, 2, 2, 2, 2, 2, 2, 2, 2, 2, 8, 2, 2, 20, 4>>

ImageFileHeaderFields == <<2, 2, 4, 4, 4, 2, 2>>

OptMagic64 == 523

ImageOptionalHeaderFields(magic) ==
    <<2, 1, 1, 4, 4, 4, 4, 4, 4, 4, 4, 4, 2, 2, 2, 2, 2, 2, 4, 4, 4, 4, 2, 2>>
    \o (IF magic = OptMagic64 THEN <<8, 8, 8, 8>> ELSE <<4, 4, 4, 4>>)
    \o <<4, 4>>

ImageNtHeaderFields(magic) ==
    <<4>> \o ImageFileHeaderFields \o ImageOptionalHeaderFields(magic)

ImageDataDirFields == <<4, 4>>

ImageSectionHeaderFields == <<8, 4, 4, 4, 4, 4, 4, 2, 2, 4>>

ImageResourceDirFields == <<4, 4, 2, 2, 2, 2>>

ImageResourceDirEntryFields == <<4, 4>>

ImageResourceDataEntryFields == <<4, 4, 4, 4>>

RECURSIVE Repeat(_, _)
Repeat(s, n) == IF n = 0 THEN <<>> ELSE s \o Repeat(s, n - 1)

\* DosHeader::DosHeader at offset p
DosHeader(p) ==
    LET r == ReadFields(p, DosHeaderFields)
    IN  [ok |-> r.ok, pos |-> r.pos,
         magic |-> IF CanRead(p, 2) THEN Bytes(p, 2) ELSE <<>>,
         e_lfanew |-> LE32(p + 60)]

MZ == <<77, 90>>

\* ImageNtHeader::ImageNtHeader at offset p: signature, file header at p + 4,
\* optional header at p + 24
ImageNtHeader(p) ==
    LET magic == LE16(p + 24)
        r == ReadFields(p, ImageNtHeaderFields(magic))
    IN  [ok |-> r.ok, pos |-> r.pos,
         number_of_sections |-> LE16(p + 6),
         magic |-> magic,
         pe64 |-> magic = OptMagic64,
         section_alignment |-> LE32(p + 56),
         file_alignment |-> LE32(p + 60),
         number_of_rva_and_sizes |-> LE32(r.pos - 4)]

\* ImageSectionHeader::ImageSectionHeader at offset p
ImageSectionHeader(p) ==
    [virtual_size |-> LE32(p + 8),
     virtual_address |-> LE32(p + 12),
     pointer_to_raw_data |-> LE32(p + 20)]

\* ImageResourceDirEntry::ImageResourceDirEntry at offset p
ImageResourceDirEntry(p) ==
    LET name31 == LE24(p) + 16777216 * (ByteAt(p + 3) % 128)
    IN  [name_is_string |-> ByteAt(p + 3) >= 128,
         name_offset |-> name31,
         id |-> name31,
         data_is_dir |-> ByteAt(p + 7) >= 128,
         offset_to_data |-> LE24(p + 4) + 16777216 * (ByteAt(p + 7) % 128)]

\* ImageResourceDataEntry::ImageResourceDataEntry at offset p
ImageResourceDataEntry(p) ==
    [offset_to_data |-> LE32(p), size |-> LE32(p + 4)]

\* ------------------------------------------------------------------------
\* RvaHelper
\* ------------------------------------------------------------------------
FileAlignmentThreshold == 512
SectionAlignmentThreshold == 4096

\* variant: the end of a section's range is taken as inclusive
section_for_rva_inclusive(sections, rva) ==
    LET hits == {k \in 1..Len(sections) :
                    /\ rva >= sections[k].virtual_address
                    /\ rva <= sections[k].virtual_address
                              + sections[k].virtual_size}
    IN  IF hits = {} THEN 0
        ELSE CHOOSE k \in hits : \A j \in hits : k <= j

\* index of the first section whose range holds rva, 0 when the loop ends
\* without one (CorruptDataError "Section not found")
section_for_rva(sections, rva) ==
    LET hits == {k \in 1..Len(sections) :
                    /\ rva >= sections[k].virtual_address
                    /\ rva < sections[k].virtual_address
                             + sections[k].virtual_size}
    IN  IF hits = {} THEN 0
        ELSE CHOOSE k \in hits : \A j \in hits : k <= j

\* variant: the two branches of the conditional exchanged
adjust_file_alignment_swapped(file_alignment, offset) ==
    IF file_alignment < FileAlignmentThreshold
    THEN (offset \div 512) * 512
    ELSE offset

adjust_file_alignment(file_alignment, offset) ==
    IF file_alignment < FileAlignmentThreshold
    THEN offset
    ELSE (offset \div 512) * 512

\* variant: the threshold comparison is <= instead of <
adjust_section_alignment_le(file_alignment, section_alignment, offset) ==
    LET fixed_alignment ==
            IF section_alignment <= SectionAlignmentThreshold
            THEN file_alignment
            ELSE section_alignment
    IN  IF fixed_alignment # 0 /\ offset % fixed_alignment # 0
        THEN fixed_alignment * (offset \div fixed_alignment)
        ELSE offset

adjust_section_alignment(file_alignment, section_alignment, offset) ==
    LET fixed_alignment ==
            IF section_alignment < SectionAlignmentThreshold
            THEN file_alignment
            ELSE section_alignment
    IN  IF fixed_alignment # 0 /\ offset % fixed_alignment # 0
        THEN fixed_alignment * (offset \div fixed_alignment)
        ELSE offset

rva_to_offset(h, rva) ==
    LET k == section_for_rva(h.sections, rva)
    IN  IF k = 0 THEN [ok |-> FALSE, what |-> "CorruptDataError", offset |-> 0]
        ELSE [ok |-> TRUE, what |-> "",
              offset |-> rva
                  + adjust_file_alignment(h.file_alignment,
                        h.sections[k].pointer_to_raw_data)
                  - adjust_section_alignment(h.file_alignment,
                        h.section_alignment, h.sections[k].virtual_address)]

\* ------------------------------------------------------------------------
\* Entry names
\* ------------------------------------------------------------------------
path_sep == <<239, 188, 143>>   \* UTF-8 of U+FF0F

\* algo::format("%d", id)
RECURSIVE FormatDecimal(_)
FormatDecimal(n) ==
    IF n < 10 THEN <<48 + n>>
    ELSE FormatDecimal(n \div 10) \o <<48 + (n % 10)>>

\* UTF-8 bytes of one UTF-16 code unit outside the surrogate range
Utf8OfUnit(u) ==
    IF u < 128 THEN <<u>>
    ELSE IF u < 2048 THEN <<192 + (u \div 64), 128 + (u % 64)>>
    ELSE <<224 + (u \div 4096), 128 + ((u \div 64) % 64), 128 + (u % 64)>>

RECURSIVE utf16_to_utf8(_)
utf16_to_utf8(units) ==
    IF units = <<>> THEN <<>>
    ELSE Utf8OfUnit(Head(units)) \o utf16_to_utf8(Tail(units))

ResourceTypeName(id) ==
    CASE id = 1 -> <<67, 85, 82, 83, 79, 82>>  \* CURSOR
      [] id = 2 -> <<66, 73, 84, 77, 65, 80>>  \* BITMAP
      [] id = 3 -> <<73, 67, 79, 78>>  \* ICON
      [] id = 4 -> <<77, 69, 78, 85>>  \* MENU
      [] id = 5 -> <<68, 73, 65, 76, 79, 71>>  \* DIALOG
      [] id = 6 -> <<83, 84, 82, 73, 78, 71>>  \* STRING
      [] id = 7 -> <<70, 79, 78, 84, 95, 68, 73, 82, 69, 67, 84, 79, 82, 89>>  \* FONT_DIRECTORY
      [] id = 8 -> <<70, 79, 78, 84>>  \* FONT
      [] id = 9 -> <<65, 67, 67, 69, 76, 69, 82, 65, 84, 79, 82>>  \* ACCELERATOR
      [] id = 10 -> <<82, 67, 95, 68, 65, 84, 65>>  \* RC_DATA
      [] id = 11 -> <<77, 69, 83, 83, 65, 71, 69, 95, 84, 65, 66, 76, 69>>  \* MESSAGE_TABLE
      [] id = 16 -> <<86, 69, 82, 83, 73, 79, 78>>  \* VERSION
      [] id = 17 -> <<68, 76, 71, 95, 73, 78, 67, 76, 85, 68, 69>>  \* DLG_INCLUDE
      [] id = 19 -> <<80, 76, 85, 71, 95, 65, 78, 68, 95, 80, 76, 65, 89>>  \* PLUG_AND_PLAY
      [] id = 20 -> <<86, 88, 68>>  \* VXD
      [] id = 21 -> <<65, 78, 73, 77, 65, 84, 69, 68, 95, 67, 85, 82, 83, 79, 82>>  \* ANIMATED_CURSOR
      [] id = 22 -> <<65, 78, 73, 77, 65, 84, 69, 68, 95, 73, 67, 79, 78>>  \* ANIMATED_ICON
      [] id = 23 -> <<72, 84, 77, 76>>  \* HTML
      [] id = 24 -> <<77, 65, 78, 73, 70, 69, 83, 84>>  \* MANIFEST
      [] OTHER -> FormatDecimal(id)

\* ResourceCrawler::read_entry_name: [ok, what, name]
read_entry_name(h, entry) ==
    LET p == h.base_offset + entry.name_offset
        max_size == LE16(p)
    IN  IF ~entry.name_is_string
        THEN [ok |-> TRUE, what |-> "", name |-> ResourceTypeName(entry.id)]
        ELSE IF ~CanSeek(p) \/ ~CanRead(p, 2) \/ ~CanRead(p + 2, max_size * 2)
        THEN [ok |-> FALSE, what |-> "EofError", name |-> <<>>]
        ELSE [ok |-> TRUE, what |-> "",
              name |-> utf16_to_utf8([k \in 1..max_size |-> LE16(p + 2 * k)])]

\* the cursor read_entry_name leaves when it is called with the cursor at
\* p0, whether it returns or throws
read_entry_name_pos(h, entry, p0) ==
    LET p == h.base_offset + entry.name_offset
        max_size == LE16(p)
    IN  IF ~entry.name_is_string \/ ~CanSeek(p) THEN p0
        ELSE IF ~CanRead(p, 2) THEN p
        ELSE IF ~CanRead(p + 2, max_size * 2) THEN p + 2
        ELSE p + 2 + max_size * 2

\* variant: the separator is inserted without looking at path
EntryPath_always_sep(path, name) == path \o path_sep \o name

\* the path handed to the child of a directory entry
EntryPath(path, name) ==
    IF path # <<>> THEN path \o path_sep \o name ELSE name

\* ------------------------------------------------------------------------
\* read_meta_impl up to the construction of RvaHelper
\* ------------------------------------------------------------------------
NoHdr ==
    [decoded |-> FALSE, magic |-> 0, file_alignment |-> 0,
     section_alignment |-> 0, number_of_rva_and_sizes |-> 0, dd_pos |-> 0,
     sections |-> <<>>, res_rva |-> 0, base_offset |-> 0, crawling |-> FALSE]

\* [ok, pos, h]: ok = FALSE when a read or the seek to e_lfanew threw
ParseHeaders ==
    LET dos == DosHeader(0)
        nt == ImageNtHeader(dos.e_lfanew)
        dd == ReadFields(nt.pos,
                  Repeat(ImageDataDirFields, nt.number_of_rva_and_sizes))
        sec == ReadFields(dd.pos,
                  Repeat(ImageSectionHeaderFields, nt.number_of_sections))
        fail(p) == [ok |-> FALSE, pos |-> p, h |-> NoHdr]
    IN  IF ~dos.ok THEN fail(dos.pos)
        ELSE IF ~CanSeek(dos.e_lfanew) THEN fail(dos.pos)
        ELSE IF ~nt.ok THEN fail(nt.pos)
        ELSE IF ~dd.ok THEN fail(dd.pos)
        ELSE IF ~sec.ok THEN fail(sec.pos)
        ELSE [ok |-> TRUE, pos |-> sec.pos,
              h |-> [decoded |-> TRUE,
                     magic |-> nt.magic,
                     file_alignment |-> nt.file_alignment,
                     section_alignment |-> nt.section_alignment,
                     number_of_rva_and_sizes |-> nt.number_of_rva_and_sizes,
                     dd_pos |-> nt.pos,
                     sections |-> [k \in 1..nt.number_of_sections |->
                         ImageSectionHeader(dd.pos + 40 * (k - 1))],
                     res_rva |-> 0, base_offset |-> 0, crawling |-> FALSE]]

\* data_dirs[2].virtual_address.  The vector holds number_of_rva_and_sizes
\* elements; with fewer than three the subscript is out of bounds and the
\* build may crash (Crashed) or yield whatever lies behind the buffer.
Crashed == 0 - 1
OutOfBoundsValues == {Crashed, 0, 4096}

ResourceDirRvas(h) ==
    IF h.number_of_rva_and_sizes >= 3
    THEN {LE32(h.dd_pos + 16)}
    ELSE OutOfBoundsValues

\* ------------------------------------------------------------------------
\* ResourceCrawler
\* ------------------------------------------------------------------------
NoEntry ==
    [name_is_string |-> FALSE, name_offset |-> 0, id |-> 0,
     data_is_dir |-> FALSE, offset_to_data |-> 0]

\* one process_dir invocation: its arguments, entry_count, the loop index i,
\* the entry being processed, the position peek() will restore, and (history)
\* the positions of the entries that lead from the root to this directory
Frame(offset, path, count, ids) ==
    [offset |-> offset, path |-> path, count |-> count, i |-> 0,
     entry |-> NoEntry, saved |-> 0, ids |-> ids]

Top == stack[Len(stack)]

\* process_dir up to the loop: seek and ImageResourceDir; p0 is the cursor
\* at the call
EnterDir(h, offset, p0) ==
    LET p == h.base_offset + offset
        r == ReadFields(p, ImageResourceDirFields)
    IN  IF ~CanSeek(p)
        THEN [ok |-> FALSE, what |-> "EofError", pos |-> p0, count |-> 0]
        ELSE IF ~r.ok
        THEN [ok |-> FALSE, what |-> "EofError", pos |-> r.pos, count |-> 0]
        ELSE [ok |-> TRUE, what |-> "", pos |-> r.pos,
              count |-> LE16(p + 12) + LE16(p + 14)]

\* process_entry: the archive entry it appends, or the exception it throws
process_entry(h, offset, path) ==
    LET p == h.base_offset + offset
        r == ReadFields(p, ImageResourceDataEntryFields)
        e == ImageResourceDataEntry(p)
        t == rva_to_offset(h, e.offset_to_data)
        none == [path |-> path, offset |-> 0, size |-> 0]
    IN  IF ~CanSeek(p) \/ ~r.ok
        THEN [ok |-> FALSE, what |-> "EofError", entry |-> none]
        ELSE IF ~t.ok
        THEN [ok |-> FALSE, what |-> t.what, entry |-> none]
        ELSE [ok |-> TRUE, what |-> "",
              entry |-> [path |-> path, offset |-> t.offset, size |-> e.size]]

\* the cursor process_entry leaves when it is called with the cursor at p0,
\* whether it returns or throws
process_entry_pos(h, offset, p0) ==
    LET p == h.base_offset + offset
    IN  IF ~CanSeek(p) THEN p0
        ELSE ReadFields(p, ImageResourceDataEntryFields).pos

\* variant: the try block runs its statements without peek()
peek_unscoped(saved, body) == body

\* input_stream.peek(input_stream.tell(), [&]() { ... }) in process_dir:
\* saved is the cursor at the call, body the cursor the lambda leaves
peek(saved, body) == peek_restore(saved)

\* the message of the catch block of process_dir, with (history) the
\* position of the entry it is about
Diagnostic(h, entry, what, id) ==
    [at |-> h.base_offset + entry.offset_to_data, what |-> what, id |-> id]

\* variant: the catch block swallows the exception without a message
logger_err_silent(diagnostics, d) == diagnostics

\* args.logger.err(...) in the catch block of process_dir
logger_err(diagnostics, d) == Append(diagnostics, d)

NoExtract == [idx |-> 0, status |-> "none", data |-> <<>>]
NoFirst == [result |-> "none", meta |-> <<>>]

\* is_recognized_impl, called with the stream at its start
is_recognized_impl ==
    /\ pc = "idle"
    /\ detected = "none"
    /\ LET dos == DosHeader(0)
       IN  /\ pos' = dos.pos
           /\ detected' = IF ~dos.ok THEN "EofError"
                          ELSE IF dos.magic = MZ THEN "true"
                          ELSE "false"
    /\ UNCHANGED <<file, pc, result, hdr, stack, meta, log, src, extracted,
                   runs, first>>

\* read_meta_impl, called with the stream at its start, up to the first
\* loop iteration of the root process_dir
read_meta_impl ==
    /\ pc \in {"idle", "done"}
    /\ result # "crash"
    /\ runs < MaxRuns
    /\ runs' = runs + 1
    /\ first' = IF runs = 1 THEN [result |-> result, meta |-> meta] ELSE first
    /\ log' = <<>>
    /\ meta' = <<>>
    /\ src' = <<>>
    /\ extracted' = NoExtract
    /\ LET P == ParseHeaders
           Finish(res, p, h) ==
               /\ pc' = "done"
               /\ result' = res
               /\ pos' = p
               /\ hdr' = h
               /\ stack' = <<>>
       IN  IF ~P.ok THEN Finish("EofError", P.pos, NoHdr)
           ELSE \E rva \in ResourceDirRvas(P.h) :
               LET h0 == [P.h EXCEPT !.res_rva = rva]
                   t == rva_to_offset(h0, rva)
                   h1 == [h0 EXCEPT !.base_offset = t.offset,
                                    !.crawling = TRUE]
                   d == EnterDir(h1, 0, P.pos)
               IN  IF rva = Crashed THEN Finish("crash", P.pos, h0)
                   ELSE IF ~t.ok THEN Finish(t.what, P.pos, h0)
                   ELSE IF ~d.ok THEN Finish(d.what, d.pos, h1)
                   ELSE /\ pc' = "crawl"
                        /\ result' = "none"
                        /\ pos' = d.pos
                        /\ hdr' = h1
                        /\ stack' = <<Frame(0, <<>>, d.count, <<>>)>>
    /\ UNCHANGED <<file, detected>>

\* process_dir, one loop iteration whose try block does not enter a
\* subdirectory: the entry record, its name, then process_entry or a
\* process_dir call that throws before its loop; the catch block logs
process_dir_entry ==
    /\ pc = "crawl"
    /\ Top.i < Top.count
    /\ LET rec == ReadFields(pos, ImageResourceDirEntryFields)
           entry == ImageResourceDirEntry(pos)
           nm == read_entry_name(hdr, entry)
           entry_path == EntryPath(Top.path, nm.name)
           named == read_entry_name_pos(hdr, entry, rec.pos)
           d == EnterDir(hdr, entry.offset_to_data, named)
           e == process_entry(hdr, entry.offset_to_data, entry_path)
           body == IF ~nm.ok THEN named
                   ELSE IF entry.data_is_dir THEN d.pos
                   ELSE process_entry_pos(hdr, entry.offset_to_data, named)
           id == Top.ids \o <<Top.i>>
           what == IF ~nm.ok THEN nm.what
                   ELSE IF entry.data_is_dir THEN d.what
                   ELSE e.what
       IN  /\ rec.ok
           /\ ~nm.ok \/ ~entry.data_is_dir \/ ~d.ok
           /\ IF what = ""
              THEN /\ meta' = Append(meta, e.entry)
                   /\ src' = Append(src, id)
                   /\ log' = log
              ELSE /\ log' = logger_err(log, Diagnostic(hdr, entry, what, id))
                   /\ UNCHANGED <<meta, src>>
           /\ pos' = peek(rec.pos, body)
           /\ stack' = [stack EXCEPT ![Len(stack)].i = @ + 1,
                                     ![Len(stack)].entry = entry,
                                     ![Len(stack)].saved = rec.pos]
    /\ UNCHANGED <<file, pc, detected, result, hdr, extracted, runs, first>>

\* process_dir, a loop iteration that enters a subdirectory: the nested
\* process_dir call has read its ImageResourceDir
process_dir_descend ==
    /\ pc = "crawl"
    /\ Top.i < Top.count
    /\ Len(stack) < MaxDepth
    /\ LET rec == ReadFields(pos, ImageResourceDirEntryFields)
           entry == ImageResourceDirEntry(pos)
           nm == read_entry_name(hdr, entry)
           entry_path == EntryPath(Top.path, nm.name)
           d == EnterDir(hdr, entry.offset_to_data,
                         read_entry_name_pos(hdr, entry, rec.pos))
       IN  /\ rec.ok /\ nm.ok /\ entry.data_is_dir /\ d.ok
           /\ pos' = d.pos
           /\ stack' = Append(
                  [stack EXCEPT ![Len(stack)].entry = entry,
                                ![Len(stack)].saved = rec.pos],
                  Frame(entry.offset_to_data, entry_path, d.count,
                        Top.ids \o <<Top.i>>))
    /\ UNCHANGED <<file, pc, detected, result, hdr, meta, log, src,
                   extracted, runs, first>>

\* process_dir returns after its last entry: the caller's peek() restores
\* the cursor and the caller's loop goes on; crawl() returns to
\* read_meta_impl, which returns meta
process_dir_return ==
    /\ pc = "crawl"
    /\ Top.i = Top.count
    /\ IF Len(stack) = 1
       THEN /\ pc' = "done"
            /\ result' = "meta"
            /\ stack' = <<>>
            /\ pos' = pos
       ELSE /\ UNCHANGED <<pc, result>>
            /\ pos' = peek(stack[Len(stack) - 1].saved, pos)
            /\ stack' = [SubSeq(stack, 1, Len(stack) - 1)
                            EXCEPT ![Len(stack) - 1].i = @ + 1]
    /\ UNCHANGED <<file, detected, hdr, meta, log, src, extracted, runs,
                   first>>

\* process_dir cannot read the next entry record: the exception leaves the
\* invocation; the caller's catch block logs it, or, for the root
\* directory, it leaves read_meta_impl
process_dir_throw ==
    /\ pc = "crawl"
    /\ Top.i < Top.count
    /\ LET rec == ReadFields(pos, ImageResourceDirEntryFields)
           parent == stack[Len(stack) - 1]
       IN  /\ ~rec.ok
           /\ IF Len(stack) = 1
              THEN /\ pc' = "done"
                   /\ result' = "EofError"
                   /\ stack' = <<>>
                   /\ pos' = rec.pos
                   /\ meta' = <<>>
                   /\ src' = <<>>
                   /\ log' = log
              ELSE /\ UNCHANGED <<pc, result, meta, src>>
                   /\ pos' = peek(parent.saved, rec.pos)
                   /\ log' = logger_err(log, Diagnostic(hdr, parent.entry,
                                 "EofError", parent.ids \o <<parent.i>>))
                   /\ stack' = [SubSeq(stack, 1, Len(stack) - 1)
                                   EXCEPT ![Len(stack) - 1].i = @ + 1]
    /\ UNCHANGED <<file, detected, hdr, extracted, runs, first>>

\* read_file_impl for the k-th entry of the returned meta
read_file_impl(k) ==
    /\ pc = "done"
    /\ result = "meta"
    /\ LET e == meta[k]
       IN  IF ~CanSeek(e.offset)
           THEN /\ pos' = pos
                /\ extracted' = [idx |-> k, status |-> "EofError",
                                 data |-> <<>>]
           ELSE IF ~CanRead(e.offset, e.size)
           THEN /\ pos' = e.offset
                /\ extracted' = [idx |-> k, status |-> "EofError",
                                 data |-> <<>>]
           ELSE /\ pos' = e.offset + e.size
                /\ extracted' = [idx |-> k, status |-> "ok",
                                 data |-> Bytes(e.offset, e.size)]
    /\ UNCHANGED <<file, pc, detected, result, hdr, stack, meta, log, src,
                   runs, first>>

\* ------------------------------------------------------------------------
\* Input images.  An image is described by its header values and a list of
\* fields <<offset, width, value>>; a field that comes earlier in the list
\* overrides a later one, and bytes that no field sets are zero.
\* ------------------------------------------------------------------------
Covers(f, o) == f[1] <= o /\ o < f[1] + f[2]

Poke(fs) ==
    [o \in UNION {f[1]..(f[1] + f[2] - 1) : f \in {fs[i] : i \in 1..Len(fs)}} |->
        LET i == CHOOSE i \in 1..Len(fs) :
                     /\ Covers(fs[i], o)
                     /\ \A j \in 1..(i - 1) : ~Covers(fs[j], o)
        IN  (fs[i][3] \div (256 ^ (o - fs[i][1]))) % 256]

RECURSIVE Flatten(_)
Flatten(ss) == IF ss = <<>> THEN <<>> ELSE Head(ss) \o Flatten(Tail(ss))

HeaderFieldsOf(d) ==
    LET nt == d.e_lfanew
        opt == nt + 24
        num == opt + (IF d.magic = OptMagic64 THEN 108 ELSE 92)
        dd == num + 4
        sec == dd + 8 * d.ndirs
    IN  << <<0, 1, d.mz[1]>>, <<1, 1, d.mz[2]>>, <<60, 4, d.e_lfanew>>,
           <<nt, 4, 17744>>, <<nt + 6, 2, Len(d.secs)>>,
           <<opt, 2, d.magic>>, <<opt + 32, 4, d.sa>>, <<opt + 36, 4, d.fa>>,
           <<num, 4, d.ndirs>> >>
        \o (IF d.ndirs >= 3 THEN << <<dd + 16, 4, d.res_rva>> >> ELSE <<>>)
        \o Flatten([k \in 1..Len(d.secs) |->
               << <<sec + 40 * (k - 1) + 8, 4, d.secs[k].vs>>,
                  <<sec + 40 * (k - 1) + 12, 4, d.secs[k].va>>,
                  <<sec + 40 * (k - 1) + 20, 4, d.secs[k].ptr>> >>])

Image(d) ==
    LET all == Poke(d.tree \o HeaderFieldsOf(d))
    IN  [size |-> d.size,
         data |-> [o \in {x \in DOMAIN all : x < d.size} |-> all[o]]]

\* fields of the resource structures
DirF(o, named, ids) == << <<o + 12, 2, named>>, <<o + 14, 2, ids>> >>

EntF(o, is_string, name, is_dir, offset) ==
    << <<o, 3, name>>, <<o + 3, 1, IF is_string THEN 128 ELSE 0>>,
       <<o + 4, 3, offset>>, <<o + 7, 1, IF is_dir THEN 128 ELSE 0>> >>

DataF(o, rva, size) == << <<o, 4, rva>>, <<o + 4, 4, size>> >>

NameF(o, units) ==
    << <<o, 2, Len(units)>> >> \o [k \in 1..Len(units) |-> <<o + 2 * k, 2, units[k]>>]

PayF(o, n) == [k \in 1..n |-> <<o + k - 1, 1, 1 + ((o + k) % 250)>>]

\* The reference image: section .rsrc at RVA 4096 / file offset 512, section
\* .text at RVA 12288 / file offset 1024.  Resource tree (offsets relative
\* to 512):
\*   root    0: "A" -> dir 32,  24 (MANIFEST) -> dir 88
\*   dir    32: 3 (ICON) -> dir 64,  77 -> data 136
\*   dir    64: "L" -> data 120
\*   dir    88: 1 (CURSOR) -> data 152,  2 (BITMAP) -> data 168
\* names at 184 "A", 188 "L", 192 "", 194 U+FF0F; payloads from 208.
Ref == [base |-> 512, rsrc_rva |-> 4096, text_rva |-> 12288,
        size |-> 1056, bad_offset |-> 16384]
B == Ref.base
RsrcRva == Ref.rsrc_rva
TextRva == Ref.text_rva
FullSize == Ref.size
BadOffset == Ref.bad_offset

TreeBase ==
       DirF(B, 1, 1)
    \o EntF(B + 16, TRUE, 184, TRUE, 32) \o EntF(B + 24, FALSE, 24, TRUE, 88)
    \o DirF(B + 32, 0, 2)
    \o EntF(B + 48, FALSE, 3, TRUE, 64) \o EntF(B + 56, FALSE, 77, FALSE, 136)
    \o DirF(B + 64, 1, 0)
    \o EntF(B + 80, TRUE, 188, FALSE, 120)
    \o DirF(B + 88, 0, 2)
    \o EntF(B + 104, FALSE, 1, FALSE, 152) \o EntF(B + 112, FALSE, 2, FALSE, 168)
    \o DataF(B + 120, RsrcRva + 208, 5)
    \o DataF(B + 136, RsrcRva + 216, 3)
    \o DataF(B + 152, RsrcRva + 224, 8)
    \o DataF(B + 168, TextRva + 16, 4)
    \o NameF(B + 184, <<65>>) \o NameF(B + 188, <<76>>)
    \o NameF(B + 192, <<>>) \o NameF(B + 194, <<65295>>)
    \o PayF(B + 208, 24) \o PayF(1040, 16)

BaseDesc ==
    [mz |-> MZ, e_lfanew |-> 64, magic |-> 267, fa |-> 512, sa |-> 4096,
     ndirs |-> 3, res_rva |-> RsrcRva,
     secs |-> << [va |-> TextRva, vs |-> 256, ptr |-> 1024],
                 [va |-> RsrcRva, vs |-> 4096, ptr |-> 512] >>,
     tree |-> TreeBase, size |-> FullSize]

\* damaged or unusual resource trees: fields laid over the reference tree
TreePatches ==
    { <<>>,
      EntF(B + 16, TRUE, BadOffset, TRUE, 32),        \* root[0]: name past EOF
      EntF(B + 56, TRUE, BadOffset, FALSE, 136),      \* dir 32 [1]: name past EOF
      EntF(B + 104, TRUE, BadOffset, FALSE, 152),     \* dir 88 [0]: name past EOF
      <<<<B + 184, 2, 32767>>>>,                      \* name "A": length past EOF
      EntF(B + 104, FALSE, 1, FALSE, BadOffset),      \* dir 88 [0]: data entry past EOF
      DataF(B + 168, 36864, 4),                       \* data 168: RVA in no section
      EntF(B + 48, FALSE, 3, TRUE, BadOffset),        \* dir 32 [0]: subdirectory past EOF
      EntF(B + 16, TRUE, 192, TRUE, 32),              \* root[0]: empty name
      EntF(B + 80, TRUE, 192, FALSE, 120),            \* dir 64 [0]: empty name
      EntF(B + 16, TRUE, 194, TRUE, 32),              \* root[0]: name is U+FF0F
      DataF(B + 120, RsrcRva + 208, 20480),           \* data 120: size past EOF
      DataF(B + 136, RsrcRva + 3840, 3),              \* data 136: offset past EOF
      EntF(B + 24, FALSE, 24, FALSE, 152),            \* root[1]: leaf at the root
      DirF(B, 0, 0),                                  \* empty root
      EntF(B + 80, TRUE, 188, TRUE, 0),               \* dir 64 [0]: subdirectory is the root
      EntF(B + 104, FALSE, 1, TRUE, 88) }             \* dir 88 [0]: subdirectory is dir 88

TreeFamily == {[BaseDesc EXCEPT !.tree = p \o TreeBase] : p \in TreePatches}

\* the reference image cut short
TruncatedSizes ==
    {0, 1, 2, 3, 63, 64, 66, 90, 183, 184, 200, 208, 250, 288, 512, 520,
     532, 540, 554, 571, 590, 744, 1039}

SizeFamily == {[BaseDesc EXCEPT !.size = n] : n \in TruncatedSizes}

\* other first two bytes, at several lengths
MagicFamily ==
    {[BaseDesc EXCEPT !.mz = m, !.size = n] :
        m \in {MZ, <<90, 77>>, <<77, 0>>, <<0, 90>>},
        n \in {2, 3, 64, FullSize}}

\* other optional-header magics; 523 moves the data directories by 16 bytes
OptMagicFamily == {[BaseDesc EXCEPT !.magic = m] : m \in {523, 263, 0}}

\* other data-directory counts
DataDirFamily == {[BaseDesc EXCEPT !.ndirs = n] : n \in {0, 1, 2, 4, 16}}

\* other resource RVAs: below, between and behind the sections
ResRvaFamily ==
    {[BaseDesc EXCEPT !.res_rva = r] :
        r \in {0, 4095, 8192, 12287, TextRva + 256}}

LfanewFamily == {[BaseDesc EXCEPT !.e_lfanew = e] : e \in {960, FullSize, 2000}}

\* other section tables: none, .rsrc alone, a first section that overlaps .rsrc
SectionFamily ==
    {[BaseDesc EXCEPT !.secs = ss] :
        ss \in { <<>>,
                 << [va |-> RsrcRva, vs |-> 4096, ptr |-> 512] >>,
                 << [va |-> RsrcRva, vs |-> 8192, ptr |-> 1024],
                    [va |-> RsrcRva, vs |-> 4096, ptr |-> 512] >> }}

\* a root directory whose first record is a leaf that reads the directory
\* header itself as its data entry, in a file that ends inside the second
\* record
OverlapDesc ==
    [BaseDesc EXCEPT
        !.tree = << <<B, 4, RsrcRva>>, <<B + 4, 4, 5>> >> \o DirF(B, 0, 2)
                 \o EntF(B + 16, FALSE, 5, FALSE, 0),
        !.size = B + 16 + 8 + 4]

\* alignment values around the two thresholds, with unaligned section fields;
\* one section, an all-zero resource directory
AlignmentFamily ==
    {[BaseDesc EXCEPT !.fa = fa, !.sa = sa,
                      !.secs = << [va |-> va, vs |-> 4096, ptr |-> ptr] >>,
                      !.res_rva = va + 8, !.tree = <<>>, !.size = 16384] :
        fa \in {0, 256, 511, 512, 1024},
        sa \in {0, 512, 4095, 4096, 8192},
        va \in {4096, 4660, 8704},
        ptr \in {512, 600, 1023, 1024}}

Descs ==
    TreeFamily \cup SizeFamily \cup MagicFamily \cup OptMagicFamily
    \cup DataDirFamily \cup ResRvaFamily \cup LfanewFamily \cup SectionFamily
    \cup {OverlapDesc} \cup AlignmentFamily

Files == {Image(d) : d \in Descs}

\* ------------------------------------------------------------------------
\* What the image says about a directory entry, read independently of the
\* crawl: used to state the properties below
\* ------------------------------------------------------------------------
IsPrefix(s, t) == Len(s) <= Len(t) /\ SubSeq(t, 1, Len(s)) = s

\* the j-th record of the directory at dir_offset (relative to base_offset)
EntryAt(dir_offset, j) ==
    ImageResourceDirEntry(hdr.base_offset + dir_offset + 16 + 8 * j)

InSomeSection(rva) ==
    \E k \in 1..Len(hdr.sections) :
        /\ hdr.sections[k].virtual_address <= rva
        /\ rva < hdr.sections[k].virtual_address + hdr.sections[k].virtual_size

NameReadable(e) ==
    \/ ~e.name_is_string
    \/ LET p == hdr.base_offset + e.name_offset
       IN  p + 2 <= file.size /\ p + 2 + 2 * LE16(p) <= file.size

DataReadable(e) ==
    LET p == hdr.base_offset + e.offset_to_data
    IN  p + 16 <= file.size /\ InSomeSection(LE32(p))

\* the directory header and every record it announces lie inside the file
DirReadable(e) ==
    LET p == hdr.base_offset + e.offset_to_data
    IN  /\ p + 16 <= file.size
        /\ p + 16 + 8 * (LE16(p + 12) + LE16(p + 14)) <= file.size

EntryValid(e) ==
    NameReadable(e) /\ IF e.data_is_dir THEN DirReadable(e) ELSE DataReadable(e)

LogCount(id) == Cardinality({k \in 1..Len(log) : log[k].id = id})
SrcCount(id) == Cardinality({k \in 1..Len(src) : src[k] = id})

\* ------------------------------------------------------------------------
\* C1: is_recognized_impl returns true for every stream that starts with
\* "MZ", false for every other stream, and never fails; a 2-byte stream
\* "MZ" is classified true.
\* ------------------------------------------------------------------------
C1_DetectByMagicOnly ==
    detected # "none" =>
        detected = (IF file.size >= 2 /\ Bytes(0, 2) = MZ THEN "true" ELSE "false")

\* ------------------------------------------------------------------------
\* C2: in every directory, an entry whose processing fails (name, descent
\* into its subdirectory, data entry, RVA) gets exactly one diagnostic and
\* an entry whose processing succeeds gets none; a valid leaf contributes
\* exactly one archive entry whatever happened to its siblings; what was
\* appended or logged stays, and a directory is left only after its last
\* record or when its next record cannot be read.
\* ------------------------------------------------------------------------
C2_HandledEntries ==
    \A s \in 1..Len(stack) : \A j \in 0..(stack[s].i - 1) :
        LET e == EntryAt(stack[s].offset, j)
            id == stack[s].ids \o <<j>>
        IN  /\ LogCount(id) = IF EntryValid(e) THEN 0 ELSE 1
            /\ ~e.data_is_dir => SrcCount(id) = IF EntryValid(e) THEN 1 ELSE 0

C2_Step ==
    (pc = "crawl" /\ result' # "EofError") =>
        /\ IsPrefix(meta, meta')
        /\ IsPrefix(log, log')
        /\ Len(stack') < Len(stack) =>
              \/ Top.i = Top.count
              \/ ~CanRead(hdr.base_offset + Top.offset + 16 + 8 * Top.i, 8)

C3_CrawlNeverAborts ==
    (pc = "done" /\ hdr.crawling) => result = "meta"

\* ------------------------------------------------------------------------
\* The two terms of the root translation
\*   base_offset = res_rva + adjust_file_alignment(pointer_to_raw_data)
\*                         - adjust_section_alignment(virtual_address)
\* each recovered from the stored result and the other term
\* ------------------------------------------------------------------------
RootSection == hdr.sections[section_for_rva(hdr.sections, hdr.res_rva)]

UsedFilePointer ==
    hdr.base_offset - hdr.res_rva
    + adjust_section_alignment(hdr.file_alignment, hdr.section_alignment,
                               RootSection.virtual_address)

UsedVirtualAddress ==
    hdr.res_rva - hdr.base_offset
    + adjust_file_alignment(hdr.file_alignment,
                            RootSection.pointer_to_raw_data)

C5_Divisor ==
    IF hdr.section_alignment <= 4095
    THEN hdr.file_alignment
    ELSE hdr.section_alignment

C5_SectionAlignment ==
    hdr.crawling =>
        LET va == RootSection.virtual_address
            u == UsedVirtualAddress
        IN  IF C5_Divisor = 0 \/ va % C5_Divisor = 0
            THEN u = va
            ELSE /\ u % C5_Divisor = 0
                 /\ u <= va
                 /\ va < u + C5_Divisor

\* a translation that substituted file_alignment and rounded
C5_Witness ==
    /\ hdr.crawling
    /\ hdr.section_alignment <= 4095
    /\ C5_Divisor # 0
    /\ RootSection.virtual_address % C5_Divisor # 0
    /\ UsedVirtualAddress < RootSection.virtual_address

\* ------------------------------------------------------------------------
\* C6: when the virtual address of data-directory slot 2 lies in no
\* section's range [virtual_address, virtual_address + virtual_size),
\* read_meta_impl ends with CorruptDataError: no meta, no diagnostic, no
\* process_dir call.
\* ------------------------------------------------------------------------
C6_SlotOutsideSections ==
    /\ hdr.decoded
    /\ hdr.number_of_rva_and_sizes >= 3
    /\ ~InSomeSection(LE32(hdr.dd_pos + 16))

C6_NoSectionIsFatal ==
    C6_SlotOutsideSections =>
        /\ pc = "done"
        /\ result = "CorruptDataError"
        /\ ~hdr.crawling
        /\ stack = <<>> /\ meta = <<>> /\ log = <<>>

\* slot 2 holds the first address behind a section and the call failed
C6_Witness ==
    /\ C6_SlotOutsideSections
    /\ result = "CorruptDataError"
    /\ \E k \in 1..Len(hdr.sections) :
          LE32(hdr.dd_pos + 16) =
              hdr.sections[k].virtual_address + hdr.sections[k].virtual_size

\* ------------------------------------------------------------------------
\* C7: an optional header whose magic is neither 0x10B nor 0x20B makes
\* read_meta_impl fail; it never returns a meta for such a file.
\* ------------------------------------------------------------------------
C7_BadMagicIsFatal ==
    result = "meta" => hdr.magic \in {267, 523}

\* ------------------------------------------------------------------------
\* C8: read_file_impl on an entry of the returned meta yields exactly
\* entry.size bytes, the bytes of the file at [offset, offset + size).
\* ------------------------------------------------------------------------
C8_ExtractDelivers ==
    extracted.status # "none" =>
        LET e == meta[extracted.idx]
        IN  /\ extracted.status = "ok"
            /\ Len(extracted.data) = e.size
            /\ e.offset + e.size <= file.size
            /\ \A k \in 1..e.size :
                  extracted.data[k] = ByteAt(e.offset + k - 1)

\* ------------------------------------------------------------------------
\* Paths as sequences of segments
\* ------------------------------------------------------------------------
SepAt(p, k) ==
    k >= 1 /\ k + 2 <= Len(p) /\ SubSeq(p, k, k + 2) = path_sep

SepCount(p) == Cardinality({k \in 1..Len(p) : SepAt(p, k)})

HasEmptySegment(p) ==
    \/ p = <<>>
    \/ SepAt(p, 1)
    \/ SepAt(p, Len(p) - 2)
    \/ \E k \in 1..Len(p) : SepAt(p, k) /\ SepAt(p, k + 3)

\* resolved names of the entries at positions ids, from the directory at
\* dir_offset downwards
RECURSIVE NamesAlong(_, _)
NamesAlong(dir_offset, ids) ==
    IF ids = <<>> THEN <<>>
    ELSE LET e == EntryAt(dir_offset, Head(ids))
         IN  <<read_entry_name(hdr, e).name>>
             \o NamesAlong(e.offset_to_data, Tail(ids))

RECURSIVE Join(_)
Join(names) ==
    IF Len(names) = 1 THEN Head(names)
    ELSE Head(names) \o path_sep \o Join(Tail(names))

RECURSIVE FoldPath(_, _)
FoldPath(acc, names) ==
    IF names = <<>> THEN acc
    ELSE FoldPath(IF acc = <<>> THEN Head(names)
                  ELSE acc \o path_sep \o Head(names), Tail(names))

\* ------------------------------------------------------------------------
\* C9 as stated: every produced path is the resolved names from the root
\* to the leaf joined by the separator, with one segment per level, no
\* leading separator and no empty segment.
\* ------------------------------------------------------------------------
C9_AsStated ==
    \A k \in 1..Len(meta) :
        LET names == NamesAlong(0, src[k])
            p == meta[k].path
        IN  /\ p = Join(names)
            /\ SepCount(p) + 1 = Len(src[k])
            /\ ~HasEmptySegment(p)

\* C9 amended: every produced path is built level by level as name when
\* the path so far is empty and path + separator + name otherwise; when
\* every resolved name on the way is non-empty and holds no separator this
\* is the names joined by the separator, with one segment per level, no
\* leading separator and no empty segment.
C9_PathConstruction ==
    \A k \in 1..Len(meta) :
        LET names == NamesAlong(0, src[k])
            p == meta[k].path
        IN  /\ p = FoldPath(<<>>, names)
            /\ (\A n \in 1..Len(names) :
                    names[n] # <<>> /\ SepCount(names[n]) = 0)
               => /\ p = Join(names)
                  /\ SepCount(p) + 1 = Len(src[k])
                  /\ ~HasEmptySegment(p)

\* the entry under "A", id 3, "L" has the path A<SEP>ICON<SEP>L
C9_Witness ==
    \E k \in 1..Len(meta) :
        /\ NamesAlong(0, src[k]) = << <<65>>, <<73, 67, 79, 78>>, <<76>> >>
        /\ meta[k].path = <<65>> \o path_sep \o <<73, 67, 79, 78>>
                          \o path_sep \o <<76>>

\* ------------------------------------------------------------------------
\* C10: entries are appended in depth-first pre-order of the directory
\* records (everything under record i before anything under record j > i),
\* and a second read_meta_impl call on the same file ends as the first did,
\* with the same sequence of (path, offset, size).
\* ------------------------------------------------------------------------
Before(s, t) ==
    \E k \in 1..Len(s) :
        /\ k <= Len(t)
        /\ SubSeq(s, 1, k - 1) = SubSeq(t, 1, k - 1)
        /\ s[k] < t[k]

C10_PreorderAndRepeatable ==
    /\ \A a, b \in 1..Len(src) : a < b => Before(src[a], src[b])
    /\ (runs >= 2 /\ pc = "done") =>
           result = first.result /\ meta = first.meta

\* ------------------------------------------------------------------------
\* C11: read_meta_impl terminates on every file, also when a subdirectory
\* record points back at its own directory or at an ancestor: the recursion
\* depth is bounded.  process_dir does the same reads whenever it is called
\* with the same offset, so the crawl ends only if no directory is entered
\* while an invocation for that directory is still active.
\* ------------------------------------------------------------------------
C11_NoDirectoryReentered ==
    \A s, t \in 1..Len(stack) : s < t => stack[s].offset # stack[t].offset

\* ------------------------------------------------------------------------
\* C12: read positioning in process_dir.  While the crawl runs, the cursor
\* is at D + 16 + 8 * i for the innermost directory (absolute offset D, i
\* records handled, whether each of them succeeded or failed), and every
\* directory that waits for a subdirectory will be given the cursor
\* D + 16 + 8 * (i + 1) when the subdirectory is left: each record is read
\* from its own position in the file.
\* ------------------------------------------------------------------------
C12_ReadPositioning ==
    pc = "crawl" =>
        /\ pos = hdr.base_offset + Top.offset + 16 + 8 * Top.i
        /\ \A s \in 1..(Len(stack) - 1) :
               stack[s].saved =
                   hdr.base_offset + stack[s].offset + 16 + 8 * (stack[s].i + 1)

\* a directory that has come back from a subdirectory, after one leaf of
\* the run was appended and one record of the run failed
C12_Witness ==
    /\ pc = "crawl"
    /\ Top.i >= 1
    /\ Top.i < Top.count
    /\ Top.entry.data_is_dir
    /\ Len(meta) >= 1
    /\ Len(log) >= 1
    /\ pos = hdr.base_offset + Top.offset + 16 + 8 * Top.i

\* ------------------------------------------------------------------------
\* C13: data-directory slot 2 is read only from within the decoded table.
\* When the optional header announces fewer than three data directories,
\* read_meta_impl ends with an exception: it does not crash, and it derives
\* no base offset and starts no crawl from a value outside the table.
\* ------------------------------------------------------------------------
C13_SlotTwoWithinTable ==
    (hdr.decoded /\ hdr.number_of_rva_and_sizes < 3) =>
        /\ pc = "done"
        /\ result \in {"EofError", "CorruptDataError"}
        /\ ~hdr.crawling

Init ==
    /\ file \in Files
    /\ pos = 0
    /\ pc = "idle"
    /\ detected = "none"
    /\ result = "none"
    /\ hdr = NoHdr
    /\ stack = <<>>
    /\ meta = <<>>
    /\ log = <<>>
    /\ src = <<>>
    /\ extracted = NoExtract
    /\ runs = 0
    /\ first = NoFirst

Next ==
    \/ is_recognized_impl
    \/ read_meta_impl
    \/ process_dir_entry
    \/ process_dir_descend
    \/ process_dir_return
    \/ process_dir_throw
    \/ \E k \in 1..Len(meta) : read_file_impl(k)

Spec == Init /\ [][Next]_vars

====
